---- MODULE Spec2Model ----
(***************************************************************************)
(* Model of src/main.py: a Flask handler `index` that receives Pub/Sub     *)
(* push envelopes describing uploaded objects, downloads the object,       *)
(* derives a metadata row and streams it into a BigQuery table.            *)
(*                                                                         *)
(* JSON / Python values are tagged records [t |-> type, v |-> payload].    *)
(* Texts (object contents) are sequences of one-character strings.         *)
(***************************************************************************)
EXTENDS Integers, Sequences, FiniteSets, TLC

\* ------------------------------------------------------------------ bounds
NumReq == 2          \* requests the concurrent specification delivers
MaxTime == 1         \* the clock read by datetime.utcnow() runs 0..MaxTime
MaxOver == 1         \* longest object text is SnippetLen + MaxOver characters
MaxShortLen == 2     \* every text over Chars up to this length is an object

\* ------------------------------------------------------- program constants
SnippetLen == 100

Tags == <<"simulated", "ocr", "processed">>

\* ------------------------------------------------------------ JSON values
JNull == [t |-> "null"]
JBool(b) == [t |-> "bool", v |-> b]
JNum(n) == [t |-> "num", v |-> n]
JStr(s) == [t |-> "str", v |-> s]
JList(q) == [t |-> "list", v |-> q]
JObj(f) == [t |-> "obj", v |-> f]

\* Python truth value of a deserialized JSON value (`not x`)
Truthy(j) ==
    CASE j.t = "null" -> FALSE
      [] j.t = "bool" -> j.v
      [] j.t = "num"  -> j.v # 0
      [] j.t = "str"  -> j.v # ""
      [] j.t = "list" -> Len(j.v) > 0
      [] j.t = "obj"  -> DOMAIN j.v # {}

\* isinstance(j, dict)
IsDict(j) == j.t = "obj"

\* key in d, for a dict d
Has(d, key) == key \in DOMAIN d.v

\* d[key], for a dict d holding key
Item(d, key) == d.v[key]

\* d.get(key): the value, or None
DictGet(d, key) == IF Has(d, key) THEN d.v[key] ELSE JNull

\* type(j).__name__
TypeName(j) ==
    CASE j.t = "null" -> "NoneType"
      [] j.t = "bool" -> "bool"
      [] j.t = "num"  -> "int"
      [] j.t = "str"  -> "str"
      [] j.t = "list" -> "list"
      [] j.t = "obj"  -> "dict"

\* results of calls that may raise
Ok(x) == [ok |-> TRUE, val |-> x]
Fault(msg) == [ok |-> FALSE, err |-> msg]

\* --------------------------------------------------- decoding (line 42-44)
\* base64.b64decode, restricted to the strings the envelopes below carry:
\* <<ASCII base64 text, decoded bytes>>
B64Table ==
    { <<"eyJidWNrZXQiOiJiMSIsIm5hbWUiOiJmMS50eHQifQ==", "{\"bucket\":\"b1\",\"name\":\"f1.txt\"}">>,
      <<"eyJidWNrZXQiOiJiMSIsIm5hbWUiOiJmMi50eHQifQ==", "{\"bucket\":\"b1\",\"name\":\"f2.txt\"}">>,
      <<"IHsiYnVja2V0IjoiYjEiLCJuYW1lIjoiZjEudHh0Iiwic2l6ZSI6IjExIn0g", " {\"bucket\":\"b1\",\"name\":\"f1.txt\",\"size\":\"11\"} ">>,
      <<"eyJidWNrZXQiOiJiMSJ9", "{\"bucket\":\"b1\"}">>,
      <<"eyJuYW1lIjoiZjEudHh0In0=", "{\"name\":\"f1.txt\"}">>,
      <<"eyJidWNrZXQiOiIiLCJuYW1lIjoiZjEudHh0In0=", "{\"bucket\":\"\",\"name\":\"f1.txt\"}">>,
      <<"eyJidWNrZXQiOiJiMSIsIm5hbWUiOm51bGx9", "{\"bucket\":\"b1\",\"name\":null}">>,
      <<"e30=", "{}">>,
      <<"WzFd", "[1]">>,
      <<"bm90IGpzb24=", "not json">>,
      <<"/w==", "\\xff">>,
      <<"", "">> }

\* bytes that are not valid UTF-8
InvalidUtf8 == {"\\xff"}

\* base64.b64decode(x): the bytes, or TypeError / binascii.Error
B64Decode(x) ==
    IF x.t # "str"
    THEN Fault("argument should be a bytes-like object or ASCII string, not '"
               \o TypeName(x) \o "'")
    ELSE IF \E p \in B64Table : p[1] = x.v
         THEN Ok([bytes |-> (CHOOSE p \in B64Table : p[1] = x.v)[2]])
         ELSE Fault("Incorrect padding")

\* bytes.decode("utf-8"): the text, or UnicodeDecodeError
Utf8Decode(b) ==
    IF b.bytes \in InvalidUtf8
    THEN Fault("'utf-8' codec can't decode byte 0xff in position 0: invalid start byte")
    ELSE Ok(b.bytes)

\* str.strip(): <<text with surrounding whitespace, stripped text>>
StripTable ==
    { <<" {\"bucket\":\"b1\",\"name\":\"f1.txt\",\"size\":\"11\"} ",
        "{\"bucket\":\"b1\",\"name\":\"f1.txt\",\"size\":\"11\"}">> }

Strip(text) ==
    IF \E p \in StripTable : p[1] = text
    THEN (CHOOSE p \in StripTable : p[1] = text)[2]
    ELSE text

\* json.loads, restricted to the texts above: <<text, value>>
JsonTable ==
    { <<"{\"bucket\":\"b1\",\"name\":\"f1.txt\"}",
        JObj([bucket |-> JStr("b1"), name |-> JStr("f1.txt")])>>,
      <<"{\"bucket\":\"b1\",\"name\":\"f2.txt\"}",
        JObj([bucket |-> JStr("b1"), name |-> JStr("f2.txt")])>>,
      <<"{\"bucket\":\"b1\",\"name\":\"f1.txt\",\"size\":\"11\"}",
        JObj([bucket |-> JStr("b1"), name |-> JStr("f1.txt"), size |-> JStr("11")])>>,
      <<"{\"bucket\":\"b1\"}", JObj([bucket |-> JStr("b1")])>>,
      <<"{\"name\":\"f1.txt\"}", JObj([name |-> JStr("f1.txt")])>>,
      <<"{\"bucket\":\"\",\"name\":\"f1.txt\"}",
        JObj([bucket |-> JStr(""), name |-> JStr("f1.txt")])>>,
      <<"{\"bucket\":\"b1\",\"name\":null}",
        JObj([bucket |-> JStr("b1"), name |-> JNull])>>,
      <<"{}", JObj(<<>>)>>,
      <<"[1]", JList(<<JNum(1)>>)>> }

\* json.loads(text): the value, or JSONDecodeError
JsonLoads(text) ==
    IF \E p \in JsonTable : p[1] = text
    THEN Ok((CHOOSE p \in JsonTable : p[1] = text)[2])
    ELSE Fault("Expecting value: line 1 column 1 (char 0)")

\* event_data.get(key): AttributeError unless event_data is a dict
EventGet(event_data, key) ==
    IF IsDict(event_data)
    THEN Ok(DictGet(event_data, key))
    ELSE Fault("'" \o TypeName(event_data) \o "' object has no attribute 'get'")

\* --------------------------------------------------------- index (25-62)
Response(status, body) == [kind |-> "resp", status |-> status, body |-> body]

\* the call process_file(bucket_name, file_name) of line 56
Process(bucket_name, file_name) ==
    [kind |-> "process", bucket_name |-> bucket_name, file_name |-> file_name]

\* a fault that leaves index() unhandled: no response of the handler's own
Unhandled(e) == [kind |-> "unhandled", status |-> 0, body |-> e]

\* a variant that answers 204 with no body where line 62 answers 200 "OK"
NoContent == Response(204, "")

\* line 62: return "OK", 200
Accepted == Response(200, "OK")

\* line 52: return "OK", 200
Ignored == Response(200, "OK")

\* line 28: if not envelope
NoEnvelope(envelope) == ~Truthy(envelope)

\* line 33: if not isinstance(envelope, dict) or "message" not in envelope
BadFormat(envelope) == ~IsDict(envelope) \/ ~Has(envelope, "message")

\* line 40: if isinstance(pubsub_message, dict) and "data" in pubsub_message
HasData(pubsub_message) == IsDict(pubsub_message) /\ Has(pubsub_message, "data")

\* a variant of line 50 that tests the bucket alone
NotActionableBucketOnly(bucket_name, file_name) == ~Truthy(bucket_name)

\* line 50: if not bucket_name or not file_name
NotActionable(bucket_name, file_name) == ~Truthy(bucket_name) \/ ~Truthy(file_name)

\* a variant without the except clause of lines 58-60: the fault leaves index()
IndexNoExcept(e) == Unhandled(e)

\* lines 58-60: except Exception as e: return f"Error: {e}", 500
IndexExcept(e) == Response(500, "Error: " \o e)

\* lines 47-56, with event_data parsed
HandleEvent(event_data) ==
    LET bucket_name == EventGet(event_data, "bucket")
        file_name == EventGet(event_data, "name")
    IN  IF ~bucket_name.ok THEN IndexExcept(bucket_name.err)
        ELSE IF ~file_name.ok THEN IndexExcept(file_name.err)
        ELSE IF NotActionable(bucket_name.val, file_name.val)
             THEN Ignored
             ELSE Process(bucket_name.val, file_name.val)

\* lines 41-56: the try block up to the call of process_file
HandleData(data) ==
    LET raw == B64Decode(data)
        text == Utf8Decode(raw.val)
        event_data == JsonLoads(Strip(text.val))
    IN  IF ~raw.ok THEN IndexExcept(raw.err)
        ELSE IF ~text.ok THEN IndexExcept(text.err)
        ELSE IF ~event_data.ok THEN IndexExcept(event_data.err)
        ELSE HandleEvent(event_data.val)

\* a variant of lines 33-36 that accepts an envelope without a message
HandleEnvelopeLenient(envelope) ==
    IF NoEnvelope(envelope)
    THEN Response(400, "Bad Request: " \o "no Pub/Sub message received")
    ELSE IF BadFormat(envelope)
    THEN Accepted
    ELSE LET pubsub_message == Item(envelope, "message")
         IN  IF HasData(pubsub_message)
             THEN HandleData(Item(pubsub_message, "data"))
             ELSE Accepted

\* a variant of line 40 that rejects a message that is not a dict
HandleEnvelopeStrict(envelope) ==
    IF NoEnvelope(envelope)
    THEN Response(400, "Bad Request: " \o "no Pub/Sub message received")
    ELSE IF BadFormat(envelope)
    THEN Response(400, "Bad Request: " \o "invalid Pub/Sub message format")
    ELSE LET pubsub_message == Item(envelope, "message")
         IN  IF ~IsDict(pubsub_message)
             THEN Response(400, "Bad Request: " \o "invalid Pub/Sub message format")
             ELSE IF HasData(pubsub_message)
             THEN HandleData(Item(pubsub_message, "data"))
             ELSE Accepted

\* lines 27-62: index() from request.get_json() to its first downstream call
HandleEnvelope(envelope) ==
    IF NoEnvelope(envelope)
    THEN Response(400, "Bad Request: " \o "no Pub/Sub message received")
    ELSE IF BadFormat(envelope)
    THEN Response(400, "Bad Request: " \o "invalid Pub/Sub message format")
    ELSE LET pubsub_message == Item(envelope, "message")
         IN  IF HasData(pubsub_message)
             THEN HandleData(Item(pubsub_message, "data"))
             ELSE Accepted

\* lines 56-62: process_file returned or raised
Finish(result) ==
    IF result.ok THEN Accepted ELSE IndexExcept(result.err)

\* ------------------------------------------------- process_file (64-92)
\* str.isspace() of one character
IsSpace(c) == c \in {" ", "\n", "\t"}

\* line 74: len(content.split())
WordCount(content) ==
    Cardinality({ i \in 1..Len(content) :
                    /\ ~IsSpace(content[i])
                    /\ (i = 1 \/ IsSpace(content[i - 1])) })

\* a variant of line 81 whose slice is one character too long
SnippetOffByOne(content) ==
    IF Len(content) > SnippetLen THEN SubSeq(content, 1, SnippetLen + 1) ELSE content

\* line 81: content[:100] if len(content) > 100 else content
Snippet(content) ==
    IF Len(content) > SnippetLen THEN SubSeq(content, 1, SnippetLen) ELSE content

\* line 79: datetime.utcnow().isoformat(), the clock counting seconds
IsoFormat(n) ==
    "1970-01-01T00:00:" \o (IF n < 10 THEN "0" ELSE "") \o ToString(n)

\* a variant of lines 74-83 that counts characters, not words
MetadataCharCount(file_name, content, clock) ==
    [filename |-> file_name.v,
     upload_timestamp |-> IsoFormat(clock),
     word_count |-> Len(content),
     content_snippet |-> Snippet(content),
     tags |-> Tags]

\* lines 77-83
Metadata(file_name, content, clock) ==
    [filename |-> file_name.v,
     upload_timestamp |-> IsoFormat(clock),
     word_count |-> WordCount(content),
     content_snippet |-> Snippet(content),
     tags |-> Tags]

\* a variant of lines 90-92 that logs the fault and does not re-raise it
ProcessFileSwallow(e) == Ok(JNull)

\* lines 90-92: except Exception as e: ...; raise
ProcessFileExcept(e) == Fault(e)

\* ------------------------------------------ insert_into_bigquery (94-104)
\* line 98: the rows argument of insert_rows_json, a variant passing the row twice
RowListTwice(row) == <<row, row>>

\* line 98: the rows argument of insert_rows_json, [row]
RowList(row) == <<row>>

\* a variant of line 100 that never sees the error list
InsertFailedNever(errors) == FALSE

\* line 100: if errors
InsertFailed(errors) == Len(errors) > 0

\* str(errors) of the error lists the warehouse returns here
Repr(errors) ==
    IF errors = <<"invalid">> THEN "[{'index': 0, 'errors': [{'reason': 'invalid'}]}]"
    ELSE IF errors = <<"stopped">> THEN "[{'index': 0, 'errors': [{'reason': 'stopped'}]}]"
    ELSE "[]"

\* lines 100-104: raise on a non-empty error list
InsertResult(errors) ==
    IF InsertFailed(errors)
    THEN Fault("BigQuery insert failed: " \o Repr(errors))
    ELSE Ok(JNull)

\* ----------------------------------------------------------------- inputs
\* values of message["data"]
DataOk1 == JStr("eyJidWNrZXQiOiJiMSIsIm5hbWUiOiJmMS50eHQifQ==")
DataOk2 == JStr("eyJidWNrZXQiOiJiMSIsIm5hbWUiOiJmMi50eHQifQ==")
DataOkPadded == JStr("IHsiYnVja2V0IjoiYjEiLCJuYW1lIjoiZjEudHh0Iiwic2l6ZSI6IjExIn0g")
DataNoName == JStr("eyJidWNrZXQiOiJiMSJ9")
DataNoBucket == JStr("eyJuYW1lIjoiZjEudHh0In0=")
DataEmptyBucket == JStr("eyJidWNrZXQiOiIiLCJuYW1lIjoiZjEudHh0In0=")
DataNullName == JStr("eyJidWNrZXQiOiJiMSIsIm5hbWUiOm51bGx9")
DataEmptyEvent == JStr("e30=")
DataListEvent == JStr("WzFd")
DataNotJson == JStr("bm90IGpzb24=")
DataBadUtf8 == JStr("/w==")
DataBadPadding == JStr("abc")
DataEmpty == JStr("")

DataValues ==
    { DataOk1, DataOk2, DataOkPadded, DataNoName, DataNoBucket, DataEmptyBucket,
      DataNullName, DataEmptyEvent, DataListEvent, DataNotJson, DataBadUtf8,
      DataBadPadding, DataEmpty, JNum(5), JNull }

\* values of envelope["message"]
Messages ==
    { JNull, JStr("data"), JNum(3), JList(<<JStr("data")>>), JObj(<<>>),
      JObj([messageId |-> JStr("1")]) }
    \cup { JObj([data |-> d]) : d \in DataValues }
    \cup { JObj([data |-> DataOk1, messageId |-> JStr("1")]) }

\* values request.get_json() returns
Envelopes ==
    { JNull, JBool(FALSE), JNum(0), JStr(""), JList(<<>>), JObj(<<>>),
      JBool(TRUE), JNum(1), JStr("message"), JList(<<JStr("message")>>),
      JObj([subscription |-> JStr("s")]) }
    \cup { JObj([message |-> m]) : m \in Messages }
    \cup { JObj([message |-> JObj([data |-> DataOk1]), subscription |-> JStr("s")]),
           JObj([message |-> JStr("data"), subscription |-> JStr("s")]) }

\* the envelopes the push system delivers concurrently, one per outcome
Notifications ==
    { JObj([message |-> JObj([data |-> DataOk1])]),
      JObj([message |-> JObj([data |-> DataOk2])]),
      JObj([message |-> JObj([data |-> DataNoName])]),
      JObj([message |-> JObj([data |-> DataNotJson])]),
      JObj([subscription |-> JStr("s")]) }

\* object contents
Chars == {"a", " "}

ShortTexts == UNION { [1..n -> Chars] : n \in 0..MaxShortLen }

Hello == <<"h", "e", "l", "l", "o", " ", "w", "o", "r", "l", "d">>

LongText(n) == [i \in 1..n |-> IF i % 7 = 0 THEN " " ELSE IF i % 2 = 0 THEN "b" ELSE "a"]

LongTexts == { LongText(n) : n \in (SnippetLen - 1)..(SnippetLen + MaxOver) }

Texts == ShortTexts \cup {Hello} \cup LongTexts

StoredTexts == {Hello, LongText(SnippetLen + MaxOver)}

\* faults of blob.download_as_text()
FetchFaults ==
    { "404 No such object",
      "'utf-8' codec can't decode byte 0x89 in position 0: invalid start byte" }

\* faults and per-row error lists of bq_client.insert_rows_json
InsertFaults == { "503 Service Unavailable" }

InsertErrors == { <<"invalid">>, <<"stopped">> }

\* ------------------------------------------------------------------ state
VARIABLES
    pc,           \* per request: "idle", "download", "insert", "done"
    envelope,     \* per request: the value request.get_json() returned
    bucket_name,  \* per request: local of index()
    file_name,    \* per request: local of index()
    metadata,     \* per request: <<metadata>> once process_file built it, else <<>>
    calls,        \* per request: the downstream calls made, in order
    resp,         \* per request: the response of index()
    table,        \* the BigQuery table: rows in insertion order
    now           \* the clock datetime.utcnow() reads

vars == <<pc, envelope, bucket_name, file_name, metadata, calls, resp, table, now>>

Reqs == 1..NumReq

NoResp == [kind |-> "none", status |-> 0, body |-> ""]

Init ==
    /\ pc = [r \in Reqs |-> "idle"]
    /\ envelope = [r \in Reqs |-> JNull]
    /\ bucket_name = [r \in Reqs |-> JNull]
    /\ file_name = [r \in Reqs |-> JNull]
    /\ metadata = [r \in Reqs |-> <<>>]
    /\ calls = [r \in Reqs |-> <<>>]
    /\ resp = [r \in Reqs |-> NoResp]
    /\ table = <<>>
    /\ now = 0

\* index() returns: its locals are gone
Return(r, response) ==
    /\ resp' = [resp EXCEPT ![r] = response]
    /\ pc' = [pc EXCEPT ![r] = "done"]
    /\ bucket_name' = [bucket_name EXCEPT ![r] = JNull]
    /\ file_name' = [file_name EXCEPT ![r] = JNull]
    /\ metadata' = [metadata EXCEPT ![r] = <<>>]

\* lines 27-56: a request arrives with one of the envelopes E
Index(r, E) ==
    /\ pc[r] = "idle"
    /\ \E e \in E :
        LET out == HandleEnvelope(e)
        IN  /\ envelope' = [envelope EXCEPT ![r] = e]
            /\ IF out.kind = "process"
               THEN /\ pc' = [pc EXCEPT ![r] = "download"]
                    /\ bucket_name' = [bucket_name EXCEPT ![r] = out.bucket_name]
                    /\ file_name' = [file_name EXCEPT ![r] = out.file_name]
                    /\ UNCHANGED <<metadata, resp>>
               ELSE Return(r, out)
    /\ UNCHANGED <<calls, table, now>>

\* lines 67-85: the object store answers with one of the texts T or a fault
Download(r, T) ==
    /\ pc[r] = "download"
    /\ \E out \in { Ok(c) : c \in T } \cup { Fault(f) : f \in FetchFaults } :
        /\ calls' = [calls EXCEPT ![r] = Append(@,
              [op |-> "fetch", bucket |-> bucket_name[r].v,
               name |-> file_name[r].v, out |-> out])]
        /\ IF out.ok
           THEN /\ metadata' = [metadata EXCEPT ![r] =
                                   <<Metadata(file_name[r], out.val, now)>>]
                /\ pc' = [pc EXCEPT ![r] = "insert"]
                /\ UNCHANGED <<bucket_name, file_name, resp>>
           ELSE Return(r, Finish(ProcessFileExcept(out.err)))
    /\ UNCHANGED <<envelope, table, now>>

\* lines 88, 96-104, 62: the warehouse answers with an error list or a fault
InsertRows(r) ==
    /\ pc[r] = "insert"
    /\ \E out \in { Ok(errors) : errors \in InsertErrors \cup {<<>>} }
                    \cup { Fault(f) : f \in InsertFaults } :
        LET result == IF out.ok THEN InsertResult(out.val) ELSE out
        IN  /\ calls' = [calls EXCEPT ![r] = Append(@,
                  [op |-> "insert", rows |-> RowList(metadata[r][1]), out |-> out])]
            /\ table' = IF out.ok /\ out.val = <<>>
                        THEN table \o RowList(metadata[r][1]) ELSE table
            /\ Return(r, Finish(IF result.ok THEN result
                                ELSE ProcessFileExcept(result.err)))
    /\ UNCHANGED <<envelope, now>>

\* time passes
Tick ==
    /\ now < MaxTime
    /\ now' = now + 1
    /\ UNCHANGED <<pc, envelope, bucket_name, file_name, metadata, calls, resp, table>>

\* the service under concurrent deliveries
Next ==
    \/ Tick
    \/ \E r \in Reqs : Index(r, Notifications)
    \/ \E r \in Reqs : Download(r, StoredTexts)
    \/ \E r \in Reqs : InsertRows(r)

Spec == Init /\ [][Next]_vars

\* one request, over every envelope and every object text
NextOne ==
    \/ Tick
    \/ Index(1, Envelopes)
    \/ Download(1, Texts)
    \/ InsertRows(1)

SpecOne == Init /\ [][NextOne]_vars

\* ======================================================= the properties
\* What the inputs are, read off the inputs themselves (not off the handler).
HasMessage(e) == e.t = "obj" /\ "message" \in DOMAIN e.v

CarriesData(e) ==
    /\ HasMessage(e)
    /\ e.v["message"].t = "obj"
    /\ "data" \in DOMAIN e.v["message"].v

DataOf(e) == e.v["message"].v["data"]

\* data that decodes to an event with a non-empty bucket and name
ActionableData == {DataOk1, DataOk2, DataOkPadded}

\* data that decodes to an event with bucket or name missing, null or empty
IgnoredData == {DataNoName, DataNoBucket, DataEmptyBucket, DataNullName, DataEmptyEvent}

\* data on which base64, UTF-8, JSON decoding or the field reads fault
FaultyData ==
    {DataListEvent, DataNotJson, DataBadUtf8, DataBadPadding, DataEmpty, JNum(5), JNull}

EventBucket(d) == "b1"

EventName(d) == IF d = DataOk2 THEN "f2.txt" ELSE "f1.txt"

IsActionable(e) == CarriesData(e) /\ DataOf(e) \in ActionableData

\* whitespace-separated tokens of a text, scanning left to right
RECURSIVE SplitCount(_, _)
SplitCount(text, inWord) ==
    IF text = <<>> THEN 0
    ELSE LET space == Head(text) \in {" ", "\n", "\t"}
         IN  (IF ~space /\ ~inWord THEN 1 ELSE 0) + SplitCount(Tail(text), ~space)

Min(a, b) == IF a < b THEN a ELSE b

FetchCount(r) == Cardinality({ i \in DOMAIN calls[r] : calls[r][i].op = "fetch" })

InsertCount(r) == Cardinality({ i \in DOMAIN calls[r] : calls[r][i].op = "insert" })

\* the request's first downstream call was a fetch that raised
FetchFaulted(r) ==
    /\ Len(calls[r]) >= 1
    /\ calls[r][1].op = "fetch"
    /\ ~calls[r][1].out.ok

\* the request made an insert call that returned a non-empty error list
InsertReportedErrors(r) ==
    \E i \in DOMAIN calls[r] :
        /\ calls[r][i].op = "insert"
        /\ calls[r][i].out.ok
        /\ calls[r][i].out.val # <<>>

\* the request made an insert call that returned no errors
InsertReportedNoErrors(r) ==
    \E i \in DOMAIN calls[r] :
        /\ calls[r][i].op = "insert"
        /\ calls[r][i].out.ok
        /\ calls[r][i].out.val = <<>>

\* no downstream call of the request raised or reported errors
NoDownstreamFailure(r) ==
    \A i \in DOMAIN calls[r] :
        /\ calls[r][i].out.ok
        /\ calls[r][i].op = "insert" => calls[r][i].out.val = <<>>

OkResponse == [kind |-> "resp", status |-> 200, body |-> "OK"]

RowsFor(f) == Cardinality({ i \in DOMAIN table : table[i].filename = f })

\* C1: a finished request whose envelope carries data decoding to an event
\* with non-empty bucket and name, and whose downstream calls all succeeded,
\* made exactly two calls: the fetch of (bucket, name), then one insert of
\* exactly one row (filename = name, word_count = token count of the fetched
\* text, content_snippet = its first 100 characters, the three fixed tags);
\* the row is in the table and the response is 200 "OK".
C1_OneRowInserted ==
    \A r \in Reqs :
        (pc[r] = "done" /\ IsActionable(envelope[r]) /\ NoDownstreamFailure(r)) =>
            /\ Len(calls[r]) = 2
            /\ calls[r][1].op = "fetch"
            /\ calls[r][1].bucket = EventBucket(DataOf(envelope[r]))
            /\ calls[r][1].name = EventName(DataOf(envelope[r]))
            /\ calls[r][2].op = "insert"
            /\ Len(calls[r][2].rows) = 1
            /\ LET text == calls[r][1].out.val
                   row == calls[r][2].rows[1]
               IN  /\ row.filename = EventName(DataOf(envelope[r]))
                   /\ row.word_count = SplitCount(text, FALSE)
                   /\ row.content_snippet = SubSeq(text, 1, Min(Len(text), 100))
                   /\ row.tags = <<"simulated", "ocr", "processed">>
                   /\ \E i \in DOMAIN table : table[i] = row
            /\ resp[r] = OkResponse

\* the scenario of the specification: "hello world" fetched for f1.txt
C1_Witness ==
    \E r \in Reqs :
        /\ pc[r] = "done"
        /\ envelope[r] = JObj([message |-> JObj([data |-> DataOk1])])
        /\ Len(calls[r]) = 2
        /\ calls[r][1].out.ok
        /\ calls[r][1].out.val = Hello
        /\ calls[r][2].out.ok
        /\ calls[r][2].out.val = <<>>
        /\ calls[r][2].rows[1].word_count = 2
        /\ calls[r][2].rows[1].content_snippet = Hello
        /\ resp[r] = OkResponse

\* C2: a request whose decoded event lacks bucket or name (missing, null or
\* empty) is answered 200 at once and never makes a downstream call.
C2_IgnoredEventNoCalls ==
    \A r \in Reqs :
        (pc[r] # "idle" /\ CarriesData(envelope[r])
                       /\ DataOf(envelope[r]) \in IgnoredData) =>
            /\ pc[r] = "done"
            /\ resp[r] = OkResponse
            /\ calls[r] = <<>>

C2_Witness ==
    \E r \in Reqs :
        /\ pc[r] = "done"
        /\ envelope[r] = JObj([message |-> JObj([data |-> DataNoName])])
        /\ resp[r].status = 200
        /\ calls[r] = <<>>

\* C3: a finished request whose fetch raised is answered 500 with body
\* "Error: <fault description>", made no insert call, and the table holds
\* exactly one row per insert call that reported no errors (none of them its).
C3_FetchFaultNoInsert ==
    \A r \in Reqs :
        (pc[r] = "done" /\ FetchFaulted(r)) =>
            /\ resp[r] = [kind |-> "resp", status |-> 500,
                          body |-> "Error: " \o calls[r][1].out.err]
            /\ Len(calls[r]) = 1
            /\ InsertCount(r) = 0
            /\ Len(table) = Cardinality({ q \in Reqs : InsertReportedNoErrors(q) })

C3_Witness ==
    \E r \in Reqs :
        /\ pc[r] = "done"
        /\ FetchFaulted(r)
        /\ calls[r][1].out.err = "404 No such object"
        /\ resp[r].status = 500
        /\ resp[r].body = "Error: 404 No such object"

\* C4: a finished request whose insert call returned a non-empty error list
\* is answered 500 with the body of the fault insert_into_bigquery raised.
C4_InsertErrorsGive500 ==
    \A r \in Reqs :
        (pc[r] = "done" /\ InsertReportedErrors(r)) =>
            /\ resp[r].kind = "resp"
            /\ resp[r].status = 500
            /\ resp[r].body \in
                 { "Error: BigQuery insert failed: [{'index': 0, 'errors': [{'reason': 'invalid'}]}]",
                   "Error: BigQuery insert failed: [{'index': 0, 'errors': [{'reason': 'stopped'}]}]" }

C4_Witness ==
    \E r \in Reqs :
        /\ pc[r] = "done"
        /\ Len(calls[r]) = 2
        /\ calls[r][2].op = "insert"
        /\ calls[r][2].out.ok
        /\ calls[r][2].out.val = <<"invalid">>
        /\ resp[r].status = 500

\* C5: every finished request has a response of the handler with status 200,
\* 400 or 500; one whose message carries data is answered 500 whenever the
\* data faults in decoding or in the field reads, or a downstream call
\* raises or reports errors.
C5_FaultsCaught ==
    \A r \in Reqs :
        pc[r] = "done" =>
            /\ resp[r].kind = "resp"
            /\ resp[r].status \in {200, 400, 500}
            /\ CarriesData(envelope[r]) =>
                 /\ DataOf(envelope[r]) \in FaultyData =>
                        resp[r].status = 500 /\ calls[r] = <<>>
                 /\ ~NoDownstreamFailure(r) => resp[r].status = 500

C5_Witness ==
    \E r \in Reqs :
        /\ pc[r] = "done"
        /\ envelope[r] = JObj([message |-> JObj([data |-> DataBadUtf8])])
        /\ resp[r].kind = "resp"
        /\ resp[r].status = 500

\* C6: a request whose envelope has no message key (a falsy value, a value
\* that is not an object, an object without the key) is answered 400 at once
\* with a body "Bad Request: <msg>" and never makes a downstream call.
C6_NoMessageIs400 ==
    \A r \in Reqs :
        (pc[r] # "idle" /\ ~HasMessage(envelope[r])) =>
            /\ pc[r] = "done"
            /\ resp[r].kind = "resp"
            /\ resp[r].status = 400
            /\ resp[r].body \in { "Bad Request: " \o m :
                                    m \in { "no Pub/Sub message received",
                                            "invalid Pub/Sub message format" } }
            /\ calls[r] = <<>>

C6_Witness ==
    \E r \in Reqs :
        /\ pc[r] = "done"
        /\ envelope[r] = JList(<<JStr("message")>>)
        /\ resp[r].status = 400

\* C7 as stated: an envelope whose message is not a keyed structure is
\* answered 400.
C7_WrongShapeIs400 ==
    \A r \in Reqs :
        (pc[r] # "idle" /\ HasMessage(envelope[r])
                       /\ envelope[r].v["message"].t # "obj") =>
            resp[r].status = 400

\* C7 amended: an envelope whose message is not a keyed structure is
\* answered 200 "OK" at once, and no downstream call is made.
C7_WrongShapeIs200 ==
    \A r \in Reqs :
        (pc[r] # "idle" /\ HasMessage(envelope[r])
                       /\ envelope[r].v["message"].t # "obj") =>
            /\ pc[r] = "done"
            /\ resp[r] = OkResponse
            /\ calls[r] = <<>>

C7_Witness ==
    \E r \in Reqs :
        /\ pc[r] = "done"
        /\ envelope[r] = JObj([message |-> JNull])
        /\ resp[r] = OkResponse

\* C8: an envelope whose message lacks a data field, whatever else envelope
\* and message hold, is answered 200 "OK" at once with no downstream call.
C8_NoDataIs200 ==
    \A r \in Reqs :
        (pc[r] # "idle" /\ HasMessage(envelope[r]) /\ ~CarriesData(envelope[r])) =>
            /\ pc[r] = "done"
            /\ resp[r] = OkResponse
            /\ FetchCount(r) = 0
            /\ InsertCount(r) = 0

C8_Witness ==
    \E r \in Reqs :
        /\ pc[r] = "done"
        /\ envelope[r] = JObj([message |-> JObj([messageId |-> JStr("1")])])
        /\ resp[r] = OkResponse
        /\ calls[r] = <<>>

\* a finished request that handled a notification for file f successfully
Succeeded(r, f) ==
    /\ pc[r] = "done"
    /\ IsActionable(envelope[r])
    /\ EventName(DataOf(envelope[r])) = f
    /\ resp[r].status = 200

\* C9: for each filename the table holds exactly as many rows as there are
\* requests that handled a notification for it successfully, however the
\* requests interleave; a request makes at most one fetch and one insert.
C9_RowPerSuccessfulDelivery ==
    /\ \A f \in {"f1.txt", "f2.txt"} :
          RowsFor(f) = Cardinality({ r \in Reqs : Succeeded(r, f) })
    /\ \A r \in Reqs : FetchCount(r) <= 1 /\ InsertCount(r) <= 1

\* the same notification handled twice: two rows for its file
C9_Witness ==
    \E r1, r2 \in Reqs :
        /\ r1 # r2
        /\ envelope[r1] = envelope[r2]
        /\ Succeeded(r1, "f1.txt")
        /\ Succeeded(r2, "f1.txt")
        /\ RowsFor("f1.txt") >= 2

\* the content_snippet a request built from the text it fetched
SnippetOf(r) ==
    IF pc[r] = "insert"
    THEN metadata[r][1].content_snippet
    ELSE calls[r][2].rows[1].content_snippet

\* C10: the content_snippet built from a fetched text has at most 100
\* characters, is a prefix of the text, has 100 characters when the text has
\* at least 100, and is the whole text when the text has at most 100.
C10_SnippetIsPrefix ==
    \A r \in Reqs :
        (pc[r] = "insert" \/ (pc[r] = "done" /\ Len(calls[r]) = 2)) =>
            LET text == calls[r][1].out.val
                s == SnippetOf(r)
            IN  /\ Len(s) <= 100
                /\ Len(s) <= Len(text)
                /\ \A i \in 1..Len(s) : s[i] = text[i]
                /\ Len(text) >= 100 => Len(s) = 100
                /\ Len(text) <= 100 => s = text

\* a text of more than 100 characters was cut to 100
C10_Witness ==
    \E r \in Reqs :
        /\ pc[r] = "insert"
        /\ Len(calls[r][1].out.val) > 100
        /\ Len(metadata[r][1].content_snippet) = 100

====
